---------------------------- MODULE Spec2Model ----------------------------
(***************************************************************************)
(* Model of the SAP report loader (Data_Loader.py, Config.py).             *)
(*                                                                         *)
(* Text is a sequence of one-character strings, so that lower-casing,      *)
(* trimming, splitting and substring search are computed and not assumed.  *)
(* A cell of a sheet is a record [kind, val]: kind is "empty" (NaN),       *)
(* "text" (a Python str) or "num" (a number, val holds its digits).        *)
(* A grid is the sequence of the rows of the sheet, as pandas hands them   *)
(* over, every row of the same width.                                      *)
(***************************************************************************)
EXTENDS Integers, Sequences, FiniteSets, Bags, TLC

(***************************************************************************)
(* Bounds of the checked instances.                                        *)
(***************************************************************************)
DetCols == 4
DetRows == 2
NormCols == 2
NormRows == 3
MaxCycles == 2
MaxNameLen == 3
MaxTargetLen == 3
FindCols == 2
FindRows == 2

(***************************************************************************)
(* Text helpers: str.lower, the `in` operator on str, ' '.join.            *)
(***************************************************************************)
UpperCs ==
  <<"A", "B", "C", "D", "E", "F", "G", "H", "I", "J", "K", "L", "M",
    "N", "O", "P", "Q", "R", "S", "T", "U", "V", "W", "X", "Y", "Z">>

LowerCs ==
  <<"a", "b", "c", "d", "e", "f", "g", "h", "i", "j", "k", "l", "m",
    "n", "o", "p", "q", "r", "s", "t", "u", "v", "w", "x", "y", "z">>

LowerOf ==
  [c \in {UpperCs[i] : i \in 1..Len(UpperCs)} |->
     LowerCs[CHOOSE i \in 1..Len(UpperCs) : UpperCs[i] = c]]

LowerChar(c) == IF c \in DOMAIN LowerOf THEN LowerOf[c] ELSE c

Lower(t) == [i \in 1..Len(t) |-> LowerChar(t[i])]

Contains(needle, t) ==
  \E i \in 1..(Len(t) - Len(needle) + 1) :
     SubSeq(t, i, i + Len(needle) - 1) = needle

RECURSIVE JoinSpace(_)
JoinSpace(ts) ==
  IF ts = <<>> THEN <<>>
  ELSE IF Len(ts) = 1 THEN ts[1]
  ELSE ts[1] \o <<" ">> \o JoinSpace(Tail(ts))

(***************************************************************************)
(* Cells.                                                                  *)
(***************************************************************************)
Empty == [kind |-> "empty", val |-> <<>>]
Text(t) == [kind |-> "text", val |-> t]
Num(d) == [kind |-> "num", val |-> d]

notna(cell) == cell.kind # "empty"
isstr(cell) == cell.kind = "text"
Str(cell) == IF cell.kind = "empty" THEN <<"n", "a", "n">> ELSE cell.val

(***************************************************************************)
(* The cell values the checked sheets are made of.                         *)
(***************************************************************************)
Status == <<"S", "t", "a", "t", "u", "s">>
DueDate == <<"D", "u", "e", " ", "D", "a", "t", "e">>
DueDateSp == <<" ", "D", "u", "e", " ", "D", "a", "t", "e">>
Phase == <<"P", "h", "a", "s", "e">>
Owner == <<"O", "w", "n", "e", "r">>
Banner ==
  <<"P", "M", "O", " ", "P", "r", "o", "j", "e", "c", "t", " ",
    "S", "t", "a", "r", "t", "/", "E", "n", "d", " ", "D", "a", "t", "e">>
Title ==
  <<"S", "c", "h", "e", "d", "u", "l", "e", " ",
    "S", "t", "a", "t", "u", "s", " ", "D", "a", "t", "e">>
Blank == <<" ">>
UnnTxt == <<"U", "n", "n", "a", "m", "e", "d", ":", " ", "1", " ">>
Seven == <<"7">>

(***************************************************************************)
(* A row of width w is a palette repeated over its first f cells, the      *)
(* rest empty.  The palettes give header rows, title banners, number rows, *)
(* names that collide once trimmed, gaps and blank names.                  *)
(***************************************************************************)
Palettes ==
  { <<Text(Status), Text(DueDate), Text(Phase), Text(Owner)>>,
    <<Text(Banner)>>,
    <<Text(Title)>>,
    <<Num(Seven)>>,
    <<Text(DueDate), Text(DueDateSp)>>,
    <<Empty, Text(Status)>>,
    <<Text(UnnTxt), Empty>>,
    <<Num(Seven), Text(Blank)>> }

\* The palettes without the title banners, for the sheets that are loaded.
PlainPalettes ==
  { <<Text(Status), Text(DueDate), Text(Phase), Text(Owner)>>,
    <<Num(Seven)>>,
    <<Text(DueDate), Text(DueDateSp)>>,
    <<Empty, Text(Status)>>,
    <<Text(UnnTxt), Empty>>,
    <<Num(Seven), Text(Blank)>> }

PaletteRow(w, f, pal) ==
  [j \in 1..w |-> IF j <= f THEN pal[((j - 1) % Len(pal)) + 1] ELSE Empty]

Rows(pals, w) == { PaletteRow(w, f, pal) : f \in 0..w, pal \in pals }

Grids(pals, maxc, maxr) ==
  UNION { [1..r -> Rows(pals, w)] : w \in 1..maxc, r \in 0..maxr }

(***************************************************************************)
(* _find_header_row: the score of one row.                                 *)
(* The code computes filled/len*100 + text/len*50 + 30*keywords + bonus in *)
(* floating point; the model keeps the score exact, in units of 1/len(row) *)
(* (all rows of a sample have the same len, and the baseline 0 scales to   *)
(* 0), so that `score > best_score` is decided without rounding.           *)
(***************************************************************************)
header_keywords ==
  << <<"p", "r", "o", "j", "e", "c", "t">>,
     <<"n", "a", "m", "e">>,
     <<"d", "a", "t", "e">>,
     <<"s", "t", "a", "t", "u", "s">>,
     <<"p", "h", "a", "s", "e">>,
     <<"n", "u", "m", "b", "e", "r">>,
     <<"a", "s", "s", "i", "g", "n", "e", "d">>,
     <<"e", "s", "t", "i", "m", "a", "t", "o", "r">>,
     <<"l", "o", "c", "a", "t", "i", "o", "n">>,
     <<"r", "e", "g", "i", "o", "n">>,
     <<"p", "m", "o">>,
     <<"s", "t", "a", "r", "t">>,
     <<"e", "n", "d">>,
     <<"c", "o", "m", "p", "l", "e", "t", "e">>,
     <<"d", "u", "e">>,
     <<"s", "c", "h", "e", "d", "u", "l", "e">>,
     <<"i", "d">> >>

filled_count(row) == Cardinality({j \in 1..Len(row) : notna(row[j])})

text_values(row) == Cardinality({j \in 1..Len(row) : isstr(row[j])})

row_text(row) ==
  LET present == SelectSeq(row, notna)
  IN  JoinSpace([j \in 1..Len(present) |-> Lower(Str(present[j]))])

count_keywords(row) ==
  LET txt == row_text(row)
  IN  Cardinality({k \in 1..Len(header_keywords) :
                     Contains(header_keywords[k], txt)})

\* The keyword count of every row of the checked sheets, computed once.
WidestSheet == IF DetCols > NormCols THEN DetCols ELSE NormCols

KeywordTable ==
  [row \in UNION {Rows(Palettes, w) : w \in 1..WidestSheet} |->
     count_keywords(row)]

keyword_matches(row) ==
  IF row \in DOMAIN KeywordTable THEN KeywordTable[row]
  ELSE count_keywords(row)

unique_values(row) == Cardinality({row[j] : j \in {i \in 1..Len(row) : notna(row[i])}})

RowScoreNoPenalty(row) ==
  LET kw == IF filled_count(row) > 0 THEN keyword_matches(row) ELSE 0
      adj == IF unique_values(row) > 3 THEN 20 ELSE 0
  IN  filled_count(row) * 100 + text_values(row) * 50
        + Len(row) * (kw * 30 + adj)

RowScore(row) ==
  LET kw == IF filled_count(row) > 0 THEN keyword_matches(row) ELSE 0
      u == unique_values(row)
      adj == IF u > 3 THEN 20 ELSE IF u = 1 THEN 0 - 50 ELSE 0
  IN  filled_count(row) * 100 + text_values(row) * 50
        + Len(row) * (kw * 30 + adj)

(***************************************************************************)
(* _find_header_row: tracking the best row.                                *)
(***************************************************************************)
BetterTies(score, best) == score >= best

Better(score, best) == score > best

ScanStep(row, i, cur) ==
  LET score == RowScore(row)
  IN  IF Better(score, cur.score) THEN [row |-> i, score |-> score] ELSE cur

Min(a, b) == IF a < b THEN a ELSE b

read_sample(grid, nrows) == SubSeq(grid, 1, Min(nrows, Len(grid)))

RECURSIVE ScanRows(_, _, _, _)
ScanRows(sample, n, i, cur) ==
  IF i >= n THEN cur.row
  ELSE ScanRows(sample, n, i + 1, ScanStep(sample[i + 1], i, cur))

find_header_row(grid, max_rows) ==
  LET sample == read_sample(grid, max_rows)
  IN  ScanRows(sample, Min(max_rows, Len(sample)), 0,
               [row |-> 0, score |-> 0])

(***************************************************************************)
(* pd.read_excel(file_path, header=header_row) and the DataFrame calls of  *)
(* _load_single_report.  A DataFrame is [columns, index, data]: the column *)
(* labels, the row labels and the rows of cells.                           *)
(***************************************************************************)
DefaultMaxRows == 20

Unnamed == <<"U", "n", "n", "a", "m", "e", "d">>
UnnamedPrefix == <<"U", "n", "n", "a", "m", "e", "d", ":", " ">>
Digits == <<"0", "1", "2", "3", "4", "5", "6", "7", "8", "9">>

RECURSIVE Decimal(_)
Decimal(n) ==
  IF n < 10 THEN <<Digits[n + 1]>>
  ELSE Decimal(n \div 10) \o <<Digits[(n % 10) + 1]>>

IsSpace(c) == c \in {" ", "\t", "\n", "\r"}

RECURSIVE LStrip(_)
LStrip(t) ==
  IF t # <<>> /\ IsSpace(Head(t)) THEN LStrip(Tail(t)) ELSE t

RECURSIVE RStrip(_)
RStrip(t) ==
  IF t # <<>> /\ IsSpace(t[Len(t)]) THEN RStrip(SubSeq(t, 1, Len(t) - 1))
  ELSE t

Strip(t) == RStrip(LStrip(t))

EmptyFrame == [columns |-> <<>>, index |-> <<>>, data |-> <<>>]

\* The labels pandas gives the header row: "Unnamed: j" for an empty cell,
\* then ".1", ".2" ... appended to a label that occurred before.
header_labels(hdr) ==
  LET raw == [j \in 1..Len(hdr) |->
                IF notna(hdr[j]) THEN hdr[j]
                ELSE Text(UnnamedPrefix \o Decimal(j - 1))]
      seen(j) == Cardinality({k \in 1..(j - 1) : raw[k] = raw[j]})
  IN  [j \in 1..Len(hdr) |->
         IF seen(j) = 0 THEN raw[j]
         ELSE Text(Str(raw[j]) \o <<".">> \o Decimal(seen(j)))]

read_excel(grid, header) ==
  IF grid = <<>> THEN EmptyFrame
  ELSE [columns |-> header_labels(grid[header + 1]),
        index |-> [i \in 1..(Len(grid) - header - 1) |-> i - 1],
        data |-> SubSeq(grid, header + 2, Len(grid))]

\* df.columns = df.columns.astype(str).str.strip()
strip_columns(df) ==
  [df EXCEPT !.columns = [j \in 1..Len(df.columns) |-> Strip(Str(df.columns[j]))]]

IsUnnamed(col) == Contains(Unnamed, col)

find_unnamed_cols(df) == SelectSeq(df.columns, IsUnnamed)

Positions(df, col) == {j \in 1..Len(df.columns) : df.columns[j] = col}

\* df[col].isna().all() for a label that names exactly one column
isna_all(df, col) ==
  \A i \in 1..Len(df.data) : \A j \in Positions(df, col) : ~notna(df.data[i][j])

RECURSIVE Pick(_, _, _)
Pick(seq, keep, j) ==
  IF j > Len(seq) THEN <<>>
  ELSE (IF j \in keep THEN <<seq[j]>> ELSE <<>>) \o Pick(seq, keep, j + 1)

\* df.drop(columns=[col])
drop_column(df, col) ==
  LET keep == (1..Len(df.columns)) \ Positions(df, col)
  IN  [df EXCEPT !.columns = Pick(df.columns, keep, 1),
                 !.data = [i \in 1..Len(df.data) |-> Pick(df.data[i], keep, 1)]]

\* One iteration of `for col in unnamed_cols`: the outcome is a frame, or
\* the exception raised by `if df[col].isna().all()` when col labels no
\* column (KeyError) or several (the truth value of a Series, ValueError).
ColumnRaises(df, col) == Cardinality(Positions(df, col)) # 1

drop_unchecked(df, col) == drop_column(df, col)

drop_if_empty(df, col) == IF isna_all(df, col) THEN drop_column(df, col) ELSE df

dropna_any(df) ==
  LET keep == {i \in 1..Len(df.data) :
                 \A j \in 1..Len(df.data[i]) : notna(df.data[i][j])}
  IN  [df EXCEPT !.index = Pick(df.index, keep, 1),
                 !.data = Pick(df.data, keep, 1)]

\* df.dropna(how='all')
dropna_all(df) ==
  LET keep == {i \in 1..Len(df.data) :
                 \E j \in 1..Len(df.data[i]) : notna(df.data[i][j])}
  IN  [df EXCEPT !.index = Pick(df.index, keep, 1),
                 !.data = Pick(df.data, keep, 1)]

\* df.reset_index(drop=True)
reset_index(df) == [df EXCEPT !.index = [i \in 1..Len(df.data) |-> i - 1]]

(***************************************************************************)
(* _load_single_report as one function of the file: None, or the frame.    *)
(***************************************************************************)
None == [none |-> TRUE, df |-> EmptyFrame]
Frame(df) == [none |-> FALSE, df |-> df]

MissingFile == [kind |-> "missing", grid |-> <<>>]
CorruptFile == [kind |-> "corrupt", grid |-> <<>>]
ExcelFile(grid) == [kind |-> "ok", grid |-> grid]

RECURSIVE drop_unnamed(_, _)
drop_unnamed(df, cols) ==
  IF cols = <<>> THEN Frame(df)
  ELSE IF ColumnRaises(df, Head(cols)) THEN None
  ELSE drop_unnamed(drop_if_empty(df, Head(cols)), Tail(cols))

load_single_report(f) ==
  IF f.kind = "missing" THEN None
  ELSE IF f.kind = "corrupt" THEN None
  ELSE LET hr == find_header_row(f.grid, DefaultMaxRows)
           named == strip_columns(read_excel(f.grid, hr))
           cleaned == drop_unnamed(named, find_unnamed_cols(named))
       IN  IF cleaned.none THEN None
           ELSE Frame(reset_index(dropna_all(cleaned.df)))

(***************************************************************************)
(* Config.REPORT_FILES and the catalog self.reports, a dict: a function    *)
(* whose domain is the set of keys it holds.                               *)
(***************************************************************************)
REPORT_KEYS ==
  <<"Cost Estimating", "Milestone Schedule", "Contract Schedule", "Order Data">>

NoReports == [k \in {} |-> EmptyFrame]

setitem(d, key, value) ==
  [k \in (DOMAIN d) \cup {key} |-> IF k = key THEN value ELSE d[k]]

store_unchecked(d, key, r) == setitem(d, key, r.df)

\* if df is not None: self.reports[report_key] = df
store_report(d, key, r) == IF r.none THEN d ELSE setitem(d, key, r.df)

\* The files a report path is found to hold when a pass reads it: none, an
\* unreadable one, a titled sheet, a plain sheet, and a sheet whose header
\* makes the column clean-up raise.
TitledSheet ==
  << PaletteRow(2, 1, <<Text(Banner)>>),
     PaletteRow(2, 2, <<Text(Status), Text(DueDate)>>),
     PaletteRow(2, 2, <<Num(Seven)>>) >>

PlainSheet ==
  << PaletteRow(2, 2, <<Text(Status), Text(DueDate)>>),
     PaletteRow(2, 1, <<Num(Seven)>>) >>

RaisingSheet == << PaletteRow(2, 2, <<Text(UnnTxt), Empty>>) >>

CatalogFiles ==
  { MissingFile, CorruptFile, ExcelFile(TitledSheet), ExcelFile(PlainSheet),
    ExcelFile(RaisingSheet) }

(***************************************************************************)
(* find_your_assignments: normalize_name.                                  *)
(***************************************************************************)
\* The characters of the checked names, in code point order.
AsciiOrder ==
  <<" ", ",", ".", "/", "0", "1", "2", "3", "4", "5", "6", "7", "8", "9",
    ":", ";">> \o UpperCs \o LowerCs

OrdOf ==
  [c \in {AsciiOrder[i] : i \in 1..Len(AsciiOrder)} |->
     CHOOSE i \in 1..Len(AsciiOrder) : AsciiOrder[i] = c]

\* str < str
RECURSIVE StrLess(_, _)
StrLess(a, b) ==
  IF b = <<>> THEN FALSE
  ELSE IF a = <<>> THEN TRUE
  ELSE IF Head(a) = Head(b) THEN StrLess(Tail(a), Tail(b))
  ELSE OrdOf[Head(a)] < OrdOf[Head(b)]

\* the character class [,;\s]
IsDelim(c) == c \in {",", ";"} \/ IsSpace(c)

FirstDelim(t) ==
  IF \E i \in 1..Len(t) : IsDelim(t[i])
    THEN CHOOSE i \in 1..Len(t) :
           IsDelim(t[i]) /\ \A j \in 1..(i - 1) : ~IsDelim(t[j])
    ELSE 0

RECURSIVE SkipDelims(_)
SkipDelims(t) ==
  IF t # <<>> /\ IsDelim(Head(t)) THEN SkipDelims(Tail(t)) ELSE t

\* re.split(r'[,;\s]+', t): the pieces between the runs of delimiters, the
\* empty pieces at both ends included.
RECURSIVE re_split(_)
re_split(t) ==
  LET i == FirstDelim(t)
  IN  IF i = 0 THEN <<t>>
      ELSE <<SubSeq(t, 1, i - 1)>>
             \o re_split(SkipDelims(SubSeq(t, i, Len(t))))

keep_all_words(words) == [i \in 1..Len(words) |-> Strip(words[i])]

\* [w.strip() for w in words if w.strip()]
nonempty_words(words) ==
  LET NonEmpty(w) == Strip(w) # <<>>
      kept == SelectSeq(words, NonEmpty)
  IN  [i \in 1..Len(kept) |-> Strip(kept[i])]

RECURSIVE Insert(_, _)
Insert(w, ws) ==
  IF ws = <<>> THEN <<w>>
  ELSE IF StrLess(w, Head(ws)) THEN <<w>> \o ws
  ELSE <<Head(ws)>> \o Insert(w, Tail(ws))

unsorted(words) == words

RECURSIVE sorted(_)
sorted(words) ==
  IF words = <<>> THEN <<>>
  ELSE Insert(words[Len(words)], sorted(SubSeq(words, 1, Len(words) - 1)))

normalize_name(name) ==
  JoinSpace(sorted(nonempty_words(re_split(Lower(name)))))

\* The characters of the checked column values and of the checked user
\* names (which are never empty: line 218 replaces an empty one).
NameChars == {"a", "b", "B", " ", ",", ";"}
UserNameChars == {"a", "B", " "}

Names(chars, maxlen) == UNION {[1..n -> chars] : n \in 0..maxlen}

(***************************************************************************)
(* find_your_assignments and explore_report: the catalog key they look up, *)
(* the choice of the name column, the mask and the rows it selects.        *)
(***************************************************************************)
LOOKUP_KEY == "cost_estimating"

USER_NAME == <<"S", "h", "a", "u", "n", " ", "S", "a", "u", "e", "r">>

name_keywords ==
  << <<"a", "s", "s", "i", "g", "n">>,
     <<"e", "s", "t", "i", "m", "a", "t", "o", "r">>,
     <<"n", "a", "m", "e">>,
     <<"o", "w", "n", "e", "r">> >>

\* any(keyword in col.lower() for keyword in [...])
is_name_column(col) ==
  \E k \in 1..Len(name_keywords) : Contains(name_keywords[k], Lower(col))

possible_cols(table) == SelectSeq(table.columns, is_name_column)

last_candidate(cols) == cols[Len(cols)]

\* possible_cols[0]
first_candidate(cols) == cols[1]

\* The argument name_column: None, or a column label.
NoColumn == [given |-> FALSE, name |-> <<>>]
Column(c) == [given |-> TRUE, name |-> c]

\* user_name or self.config.USER_NAME: None and '' both give the configured
\* name (an absent user_name is the empty text).
effective_user(u) == IF u = <<>> THEN USER_NAME ELSE u

\* df[name_column].astype(str).apply(lambda x: normalize_name(x) == ...),
\* for a label that names exactly one column.
name_mask(table, col, target) ==
  LET j == CHOOSE k \in Positions(table, col) : TRUE
      wanted == normalize_name(target)
  IN  [i \in 1..Len(table.data) |->
         normalize_name(Str(table.data[i][j])) = wanted]

\* df[mask]: the rows whose mask is True, with the labels they had.
select_rows(table, mask) ==
  LET keep == {i \in 1..Len(table.data) : mask[i]}
  IN  [columns |-> table.columns,
       index |-> Pick(table.index, keep, 1),
       data |-> Pick(table.data, keep, 1)]

\* What a call of find_your_assignments ends in: "not_loaded" and
\* "no_column" return None after an ERROR line, "KeyError" and "Exception"
\* leave the function as an exception, "rows" returns your_projects.
\* column is the name_column that is searched, candidates the printed
\* possible_cols.
Outcome(kind, column, candidates, rows) ==
  [kind |-> kind, column |-> column, candidates |-> candidates, rows |-> rows]

NotCalled == Outcome("idle", <<>>, <<>>, EmptyFrame)

\* Lines 249-256, as the set of the outcomes they can have.  A label that
\* is absent raises KeyError.  A label that names several columns makes
\* df[name_column] a DataFrame and the mask a Series over its columns, which
\* df[mask] rejects when the table has rows; with no rows pandas either
\* rejects it or selects nothing.
search_column(table, col, candidates, target) ==
  IF Positions(table, col) = {}
    THEN {Outcome("KeyError", col, candidates, EmptyFrame)}
  ELSE IF Cardinality(Positions(table, col)) > 1
    THEN {Outcome("Exception", col, candidates, EmptyFrame)}
           \cup (IF table.data = <<>>
                   THEN {Outcome("rows", col, candidates, table)}
                   ELSE {})
  ELSE {Outcome("rows", col, candidates,
                select_rows(table, name_mask(table, col, target)))}

find_your_assignments(catalog, name_column, u) ==
  IF LOOKUP_KEY \notin DOMAIN catalog
    THEN {Outcome("not_loaded", <<>>, <<>>, EmptyFrame)}
  ELSE LET table == catalog[LOOKUP_KEY]
           target == effective_user(u)
           candidates == possible_cols(table)
       IN  IF name_column.given
             THEN search_column(table, name_column.name, <<>>, target)
           ELSE IF candidates = <<>>
             THEN {Outcome("no_column", <<>>, <<>>, EmptyFrame)}
           ELSE search_column(table, first_candidate(candidates),
                              candidates, target)

\* explore_report(report_key): an ERROR line, or the description of the
\* table.
explore_report(catalog, report_key) ==
  IF report_key \notin DOMAIN catalog THEN "not_loaded" ELSE "shown"

(***************************************************************************)
(* The sheets behind the tables that are searched, and the arguments of    *)
(* the checked calls.                                                      *)
(***************************************************************************)
SauerShaun == <<"S", "a", "u", "e", "r", ",", " ", "S", "h", "a", "u", "n">>
ShaunASauer ==
  <<"S", "h", "a", "u", "n", " ", "A", ".", " ", "S", "a", "u", "e", "r">>
SAUERshaun == <<"S", "A", "U", "E", "R", ";", "s", "h", "a", "u", "n">>
NaN == <<"N", "a", "N">>
AssignedTo == <<"A", "s", "s", "i", "g", "n", "e", "d", " ", "T", "o">>
OwnerSp == <<" ", "O", "w", "n", "e", "r">>

\* Header rows: a name column first, last, two of them, none, two that
\* collide once trimmed, and an unlabelled column.
NameHeaderPalettes ==
  { <<Text(Owner), Text(Status)>>,
    <<Text(Status), Text(Owner)>>,
    <<Text(AssignedTo), Text(Owner)>>,
    <<Text(Status), Text(Phase)>>,
    <<Text(Owner), Text(OwnerSp)>>,
    <<Text(Status), Empty>> }

\* Data rows: the user's name in another order, another person, a number,
\* a gap.
NameDataPalettes ==
  { <<Text(SauerShaun), Num(Seven)>>,
    <<Text(ShaunASauer), Text(SauerShaun)>>,
    <<Empty, Text(SauerShaun)>> }

NameGrids(maxc, maxr) ==
  UNION { { <<PaletteRow(w, w, h)>> \o body :
              h \in NameHeaderPalettes,
              body \in [1..r -> Rows(NameDataPalettes, w)] } :
          w \in 1..maxc, r \in 0..maxr }

\* The tables _load_single_report makes of these sheets.
NameTables(maxc, maxr) ==
  LET loaded == { load_single_report(ExcelFile(g)) : g \in NameGrids(maxc, maxr) }
  IN  { r.df : r \in { l \in loaded : ~l.none } }

NameColumnArgs == { NoColumn, Column(Owner), Column(Phase) }

UserNameArgs == { <<>>, SAUERshaun, NaN }

VARIABLES
  sheet,              \* the grid behind file_path
  max_rows_to_check,  \* parameter of _find_header_row
  df_sample,          \* the rows read for the detection
  idx,                \* loop index of _find_header_row
  best,               \* [row |-> best_row, score |-> best_score]
  dpc,                \* position in _find_header_row: "read", "scan", "done"
  file,               \* what file_path holds, in _load_single_report
  header_row,         \* header_row of _load_single_report
  df,                 \* df of _load_single_report
  unnamed_cols,       \* the part of unnamed_cols still to be visited
  lpc,                \* position in _load_single_report
  ret,                \* what _load_single_report returned
  reports,            \* self.reports
  load_timestamp,     \* self.load_timestamp: 0 for None, else the pass number
  cpc,                \* position in load_all_reports: "idle", "loading"
  pos,                \* position of the loop over file_paths.items()
  latest,             \* what _load_single_report returned, per key of the pass
  printed,            \* the counts of the "Successfully loaded" line
  user_name,          \* user_name of find_your_assignments
  x,                  \* a value of the name column, as text
  normalized_user_name,
  normalized_x,       \* normalize_name(x)
  renormalized_x,     \* normalize_name applied to normalized_x
  match,              \* normalize_name(x) == normalized_user_name
  npc,                \* "user", "value", "again", "done"
  call,               \* the arguments of the last find_your_assignments call
  your_projects,      \* what that call ended in
  explored            \* what the last explore_report('cost_estimating') did

dvars == <<sheet, max_rows_to_check, df_sample, idx, best, dpc>>

lvars == <<file, header_row, df, unnamed_cols, lpc, ret>>

cvars == <<reports, load_timestamp, cpc, pos, latest, printed>>

nvars == <<user_name, x, normalized_user_name, normalized_x,
           renormalized_x, match, npc>>

fvars == <<call, your_projects, explored>>

vars == <<dvars, lvars, cvars, nvars, fvars>>

DetectIdle ==
  /\ sheet = <<>>
  /\ max_rows_to_check = DefaultMaxRows
  /\ df_sample = <<>>
  /\ idx = 0
  /\ best = [row |-> 0, score |-> 0]
  /\ dpc = "idle"

LoadIdle ==
  /\ file = MissingFile
  /\ header_row = 0
  /\ df = EmptyFrame
  /\ unnamed_cols = <<>>
  /\ lpc = "idle"
  /\ ret = None

NameIdle ==
  /\ user_name = <<>>
  /\ x = <<>>
  /\ normalized_user_name = <<>>
  /\ normalized_x = <<>>
  /\ renormalized_x = <<>>
  /\ match = FALSE
  /\ npc = "idle"

FindIdle ==
  /\ call = [name_column |-> NoColumn, user_name |-> <<>>]
  /\ your_projects = NotCalled
  /\ explored = "idle"

CatalogIdle ==
  /\ reports = NoReports
  /\ load_timestamp = 0
  /\ cpc = "idle"
  /\ pos = 0
  /\ latest = [k \in {} |-> None]
  /\ printed = [succeeded |-> 0, attempted |-> 0]

(***************************************************************************)
(* Header detection, one loop iteration per step.                          *)
(***************************************************************************)
DetectInit ==
  /\ sheet \in Grids(Palettes, DetCols, DetRows)
  /\ max_rows_to_check \in 1..(DetRows + 1)
  /\ df_sample = <<>>
  /\ idx = 0
  /\ best = [row |-> 0, score |-> 0]
  /\ dpc = "read"
  /\ LoadIdle
  /\ CatalogIdle
  /\ FindIdle
  /\ NameIdle

ReadSample ==
  /\ dpc = "read"
  /\ df_sample' = read_sample(sheet, max_rows_to_check)
  /\ dpc' = "scan"
  /\ UNCHANGED <<sheet, max_rows_to_check, idx, best, lvars, cvars, nvars, fvars>>

ScanRow ==
  /\ dpc = "scan"
  /\ idx < Min(max_rows_to_check, Len(df_sample))
  /\ best' = ScanStep(df_sample[idx + 1], idx, best)
  /\ idx' = idx + 1
  /\ UNCHANGED <<sheet, max_rows_to_check, df_sample, dpc, lvars, cvars, nvars, fvars>>

ReturnBest ==
  /\ dpc = "scan"
  /\ idx >= Min(max_rows_to_check, Len(df_sample))
  /\ dpc' = "done"
  /\ UNCHANGED <<sheet, max_rows_to_check, df_sample, idx, best, lvars, cvars, nvars, fvars>>

DetectNext == ReadSample \/ ScanRow \/ ReturnBest

SpecDetect == DetectInit /\ [][DetectNext]_vars

(***************************************************************************)
(* _load_single_report, one statement per step.                            *)
(***************************************************************************)
Files(maxc, maxr) ==
  {MissingFile, CorruptFile}
    \cup {ExcelFile(g) : g \in Grids(PlainPalettes, maxc, maxr)}

NormInit ==
  /\ DetectIdle
  /\ file \in Files(NormCols, NormRows)
  /\ header_row = 0
  /\ df = EmptyFrame
  /\ unnamed_cols = <<>>
  /\ lpc = "exists"
  /\ ret = None
  /\ CatalogIdle
  /\ FindIdle
  /\ NameIdle

FileNotFound ==
  /\ lpc = "exists"
  /\ file.kind = "missing"
  /\ ret' = None
  /\ lpc' = "done"
  /\ UNCHANGED <<dvars, cvars, nvars, fvars, file, header_row, df, unnamed_cols>>

FileFound ==
  /\ lpc = "exists"
  /\ file.kind # "missing"
  /\ lpc' = "find"
  /\ UNCHANGED <<dvars, cvars, nvars, fvars, file, header_row, df, unnamed_cols, ret>>

FindHeaderRaises ==
  /\ lpc = "find"
  /\ file.kind = "corrupt"
  /\ ret' = None
  /\ lpc' = "done"
  /\ UNCHANGED <<dvars, cvars, nvars, fvars, file, header_row, df, unnamed_cols>>

FindHeader ==
  /\ lpc = "find"
  /\ file.kind = "ok"
  /\ header_row' = find_header_row(file.grid, DefaultMaxRows)
  /\ lpc' = "read"
  /\ UNCHANGED <<dvars, cvars, nvars, fvars, file, df, unnamed_cols, ret>>

ReadExcel ==
  /\ lpc = "read"
  /\ df' = read_excel(file.grid, header_row)
  /\ lpc' = "strip"
  /\ UNCHANGED <<dvars, cvars, nvars, fvars, file, header_row, unnamed_cols, ret>>

CleanColumns ==
  /\ lpc = "strip"
  /\ df' = strip_columns(df)
  /\ unnamed_cols' = find_unnamed_cols(strip_columns(df))
  /\ lpc' = "unnamed"
  /\ UNCHANGED <<dvars, cvars, nvars, fvars, file, header_row, ret>>

DropUnnamedRaises ==
  /\ lpc = "unnamed"
  /\ unnamed_cols # <<>>
  /\ ColumnRaises(df, Head(unnamed_cols))
  /\ ret' = None
  /\ lpc' = "done"
  /\ UNCHANGED <<dvars, cvars, nvars, fvars, file, header_row, df, unnamed_cols>>

DropUnnamedCol ==
  /\ lpc = "unnamed"
  /\ unnamed_cols # <<>>
  /\ ~ColumnRaises(df, Head(unnamed_cols))
  /\ df' = drop_if_empty(df, Head(unnamed_cols))
  /\ unnamed_cols' = Tail(unnamed_cols)
  /\ UNCHANGED <<dvars, cvars, nvars, fvars, file, header_row, lpc, ret>>

DropEmptyRows ==
  /\ lpc = "unnamed"
  /\ unnamed_cols = <<>>
  /\ df' = dropna_all(df)
  /\ lpc' = "reset"
  /\ UNCHANGED <<dvars, cvars, nvars, fvars, file, header_row, unnamed_cols, ret>>

ResetIndex ==
  /\ lpc = "reset"
  /\ df' = reset_index(df)
  /\ lpc' = "return"
  /\ UNCHANGED <<dvars, cvars, nvars, fvars, file, header_row, unnamed_cols, ret>>

ReturnFrame ==
  /\ lpc = "return"
  /\ ret' = Frame(df)
  /\ lpc' = "done"
  /\ UNCHANGED <<dvars, cvars, nvars, fvars, file, header_row, df, unnamed_cols>>

NormNext ==
  \/ FileNotFound \/ FileFound \/ FindHeaderRaises \/ FindHeader
  \/ ReadExcel \/ CleanColumns \/ DropUnnamedRaises \/ DropUnnamedCol
  \/ DropEmptyRows \/ ResetIndex \/ ReturnFrame

SpecNorm == NormInit /\ [][NormNext]_vars

(***************************************************************************)
(* What the normalization is claimed to produce, stated on the sheet.      *)
(***************************************************************************)
Loaded == lpc = "done" /\ file.kind = "ok" /\ ~ret.none

HeaderCells == file.grid[header_row + 1]

DataRows == SubSeq(file.grid, header_row + 2, Len(file.grid))

CleanName(j) == Strip(Str(header_labels(HeaderCells)[j]))

ColumnEmpty(j) == \A i \in 1..Len(DataRows) : ~notna(DataRows[i][j])

KeptCols ==
  {j \in 1..Len(HeaderCells) : ~(IsUnnamed(CleanName(j)) /\ ColumnEmpty(j))}

KeptRows ==
  {i \in 1..Len(DataRows) : \E j \in KeptCols : notna(DataRows[i][j])}

Nth(S, k) == CHOOSE e \in S : Cardinality({y \in S : y < e}) = k - 1

\* C3: a column is dropped iff its trimmed name contains the placeholder
\* pattern and all its data cells are empty; the others are kept, in order.
C3_DropsOnlyEmptyUnnamed ==
  (Loaded /\ file.grid # <<>>) =>
    /\ Len(ret.df.columns) = Cardinality(KeptCols)
    /\ \A c \in 1..Len(ret.df.columns) :
         ret.df.columns[c] = CleanName(Nth(KeptCols, c))
    /\ \A i \in 1..Len(ret.df.data) :
         Len(ret.df.data[i]) = Cardinality(KeptCols)

C3_Witness_DropAndKeep ==
  /\ Loaded
  /\ Len(DataRows) >= 1
  /\ \E j \in 1..Len(HeaderCells) : j \notin KeptCols
  /\ \E j \in KeptCols : ~IsUnnamed(CleanName(j)) /\ ColumnEmpty(j)

\* C4: exactly the data rows with every remaining cell empty are removed;
\* the others keep their order and values and are labelled 0..n-1.
C4_DropsExactlyEmptyRows ==
  (Loaded /\ file.grid # <<>>) =>
    /\ Len(ret.df.data) =
         Len(DataRows) - Cardinality((1..Len(DataRows)) \ KeptRows)
    /\ \A r \in 1..Len(ret.df.data) :
         \A c \in 1..Len(ret.df.data[r]) :
           ret.df.data[r][c] = DataRows[Nth(KeptRows, r)][Nth(KeptCols, c)]
    /\ ret.df.index = [r \in 1..Len(ret.df.data) |-> r - 1]

C4_Witness_EmptyRowRemoved ==
  /\ Loaded
  /\ Len(DataRows) = 2
  /\ KeptRows = {2}
  /\ Len(ret.df.data) = 1
  /\ ret.df.index = <<0>>

\* C5 as stated: every table handed to the catalog has no empty column
\* name, no two columns of the same name and no entirely empty row.
C5_TableInvariant ==
  Loaded =>
    /\ \A c \in 1..Len(ret.df.columns) : ret.df.columns[c] # <<>>
    /\ \A c, d \in 1..Len(ret.df.columns) :
         c # d => ret.df.columns[c] # ret.df.columns[d]
    /\ \A r \in 1..Len(ret.df.data) :
         \E c \in 1..Len(ret.df.data[r]) : notna(ret.df.data[r][c])

\* C6 as stated: a table left with zero columns, or a header row index
\* outside the sheet, makes the load fail (no table is returned).
C6_ZeroColumnsFails ==
  (lpc = "done" /\ file.kind = "ok"
     /\ (header_row >= Len(file.grid) \/ df.columns = <<>>))
    => ret.none

(***************************************************************************)
(* load_all_reports: the loader is constructed, then passes follow each    *)
(* other; every iteration of the loop over the configured paths is a step. *)
(***************************************************************************)
Init ==
  /\ DetectIdle
  /\ LoadIdle
  /\ CatalogIdle
  /\ FindIdle
  /\ NameIdle

BeginLoad ==
  /\ cpc = "idle"
  /\ load_timestamp < MaxCycles
  /\ cpc' = "loading"
  /\ pos' = 1
  /\ latest' = [k \in {} |-> None]
  /\ UNCHANGED <<dvars, lvars, nvars, fvars, reports, load_timestamp, printed>>

LoadReport ==
  /\ cpc = "loading"
  /\ pos <= Len(REPORT_KEYS)
  /\ \E f \in CatalogFiles :
       LET r == load_single_report(f)
       IN  /\ reports' = store_report(reports, REPORT_KEYS[pos], r)
           /\ latest' = setitem(latest, REPORT_KEYS[pos], r)
  /\ pos' = pos + 1
  /\ UNCHANGED <<dvars, lvars, nvars, fvars, load_timestamp, cpc, printed>>

FinishLoad ==
  /\ cpc = "loading"
  /\ pos > Len(REPORT_KEYS)
  /\ load_timestamp' = load_timestamp + 1
  /\ printed' = [succeeded |-> Cardinality(DOMAIN reports),
                 attempted |-> Len(REPORT_KEYS)]
  /\ cpc' = "idle"
  /\ UNCHANGED <<dvars, lvars, nvars, fvars, reports, pos, latest>>

\* loader.explore_report('cost_estimating'), as main and quick_test call it
ExploreReport ==
  /\ cpc = "idle"
  /\ explored' = explore_report(reports, LOOKUP_KEY)
  /\ UNCHANGED <<dvars, lvars, cvars, nvars, call, your_projects>>

\* One call of find_your_assignments(name_column, user_name).
FindYourAssignments ==
  /\ cpc = "idle"
  /\ \E nc \in NameColumnArgs, u \in UserNameArgs :
       /\ call' = [name_column |-> nc, user_name |-> u]
       /\ your_projects' \in find_your_assignments(reports, nc, u)
  /\ UNCHANGED <<dvars, lvars, cvars, nvars, explored>>

Next ==
  BeginLoad \/ LoadReport \/ FinishLoad \/ ExploreReport \/ FindYourAssignments

Spec == Init /\ [][Next]_vars

(***************************************************************************)
(* find_your_assignments and explore_report on a loader whose catalog is   *)
(* empty or holds a loaded table under the key they look up.               *)
(***************************************************************************)
FindInit ==
  /\ DetectIdle
  /\ LoadIdle
  /\ NameIdle
  /\ FindIdle
  /\ reports \in {NoReports}
       \cup { setitem(NoReports, LOOKUP_KEY, t) : t \in NameTables(FindCols, FindRows) }
  /\ load_timestamp = 0
  /\ cpc = "idle"
  /\ pos = 0
  /\ latest = [k \in {} |-> None]
  /\ printed = [succeeded |-> 0, attempted |-> 0]

FindNext == ExploreReport \/ FindYourAssignments

SpecFind == FindInit /\ [][FindNext]_vars

(***************************************************************************)
(* normalize_name applied to the user name, to a value of the column, and  *)
(* to its own output.                                                      *)
(***************************************************************************)
NameInit ==
  /\ DetectIdle
  /\ LoadIdle
  /\ CatalogIdle
  /\ FindIdle
  /\ user_name \in Names(UserNameChars, MaxTargetLen) \ {<<>>}
  /\ x \in Names(NameChars, MaxNameLen)
  /\ normalized_user_name = <<>>
  /\ normalized_x = <<>>
  /\ renormalized_x = <<>>
  /\ match = FALSE
  /\ npc = "user"

NormalizeUser ==
  /\ npc = "user"
  /\ normalized_user_name' = normalize_name(user_name)
  /\ npc' = "value"
  /\ UNCHANGED <<dvars, lvars, cvars, fvars, user_name, x, normalized_x,
                 renormalized_x, match>>

MatchValue ==
  /\ npc = "value"
  /\ normalized_x' = normalize_name(x)
  /\ match' = (normalize_name(x) = normalized_user_name)
  /\ npc' = "again"
  /\ UNCHANGED <<dvars, lvars, cvars, fvars, user_name, x, normalized_user_name,
                 renormalized_x>>

NormalizeAgain ==
  /\ npc = "again"
  /\ renormalized_x' = normalize_name(normalized_x)
  /\ npc' = "done"
  /\ UNCHANGED <<dvars, lvars, cvars, fvars, user_name, x, normalized_user_name,
                 normalized_x, match>>

NameNext == NormalizeUser \/ MatchValue \/ NormalizeAgain

SpecName == NameInit /\ [][NameNext]_vars

(***************************************************************************)
(* What the detection is claimed to return, stated on the sheet itself.    *)
(***************************************************************************)
Scanned == 1..Min(max_rows_to_check, Len(sheet))

Scores == [i \in 1..Len(sheet) |-> RowScore(sheet[i])]

Keywords == [i \in 1..Len(sheet) |-> keyword_matches(sheet[i])]

FirstMaxRow ==
  LET sc == Scores
      top == {i \in Scanned : \A j \in Scanned : sc[j] <= sc[i]}
  IN  IF Scanned = {} \/ (\A i \in Scanned : sc[i] <= 0) THEN 0
      ELSE (CHOOSE i \in top : \A j \in top : i <= j) - 1

\* C1: the detection returns the first scanned row of maximal score when
\* that score is above 0, and row 0 otherwise (no row above 0, empty
\* sample); ties go to the earliest row and a one-row sheet yields 0.
C1_FirstMaximalRow ==
  dpc = "done" =>
    /\ best.row = FirstMaxRow
    /\ best.row >= 0
    /\ Scanned # {} => best.row + 1 \in Scanned
    /\ Len(sheet) = 1 => best.row = 0

C1_Witness_TieKeepsEarliest ==
  /\ dpc = "done"
  /\ Cardinality(Scanned) >= 2
  /\ sheet[1] # sheet[2]
  /\ Scores[1] = Scores[2]
  /\ Scores[1] > 0
  /\ best.row = 0

DistinctTexts(row) ==
  /\ \A j \in 1..Len(row) : isstr(row[j])
  /\ \A i, j \in 1..Len(row) : i # j => row[i] # row[j]

EmptyRow(row) == \A j \in 1..Len(row) : ~notna(row[j])

SingleRepeated(row) == unique_values(row) = 1

\* C2 as stated: a row of distinct texts with at least 3 keywords is
\* returned whenever every other row is empty or a single repeated value.
C2_Original ==
  dpc = "done" =>
    \A k \in Scanned :
      ( /\ DistinctTexts(sheet[k])
        /\ Keywords[k] >= 3
        /\ \A i \in (1..Len(sheet)) \ {k} :
              EmptyRow(sheet[i]) \/ SingleRepeated(sheet[i]) )
      => best.row = k - 1

\* C2 amended: the same, provided that no single-repeated-value row
\* contains more of the keywords than row k does (fewer, when the sheet is
\* one column wide).
C2_HeaderRowBeatsPlainBanners ==
  dpc = "done" =>
    LET kw == Keywords
    IN  \A k \in Scanned :
          ( /\ DistinctTexts(sheet[k])
            /\ kw[k] >= 3
            /\ \A i \in (1..Len(sheet)) \ {k} :
                  \/ EmptyRow(sheet[i])
                  \/ /\ SingleRepeated(sheet[i])
                     /\ kw[i] <= kw[k]
                     /\ Len(sheet[k]) = 1 => kw[i] < kw[k] )
          => best.row = k - 1

C2_Witness_HeaderAfterBanner ==
  /\ dpc = "done"
  /\ Len(sheet) = 2
  /\ Scanned = {1, 2}
  /\ DistinctTexts(sheet[2])
  /\ SingleRepeated(sheet[1])
  /\ Keywords[2] >= 3
  /\ Keywords[1] = Keywords[2]
  /\ best.row = 1

(***************************************************************************)
(* What a pass is claimed to leave in the catalog.                         *)
(***************************************************************************)
ConfiguredKeys == {REPORT_KEYS[i] : i \in 1..Len(REPORT_KEYS)}

Succeeded == {k \in DOMAIN latest : ~latest[k].none}

PassDone == cpc = "idle" /\ load_timestamp >= 1

ReflectsPass ==
  /\ DOMAIN latest = ConfiguredKeys
  /\ DOMAIN reports = Succeeded
  /\ \A k \in Succeeded : reports[k] = latest[k].df
  /\ printed.succeeded = Cardinality(Succeeded)
  /\ printed.attempted = Cardinality(ConfiguredKeys)

\* C7: the first pass of a new loader tries every configured key, and
\* leaves exactly the keys whose load succeeded, which it counts.
C7_FreshPassCatalog == (PassDone /\ load_timestamp = 1) => ReflectsPass

C7_Witness_ThreeOfFour ==
  /\ PassDone
  /\ load_timestamp = 1
  /\ latest[REPORT_KEYS[1]].none
  /\ Cardinality(DOMAIN reports) = 3
  /\ printed = [succeeded |-> 3, attempted |-> 4]

\* C8 as stated: after any number of passes the catalog holds the tables
\* of the latest pass only, and the count is that of the latest pass.
C8_CatalogReflectsLatestPass == PassDone => ReflectsPass

(***************************************************************************)
(* What name matching is claimed to compute, stated on the texts.          *)
(***************************************************************************)
\* The tokens of t: the maximal runs of characters that are no delimiters.
TokenRuns(t) ==
  {r \in (1..Len(t)) \X (1..Len(t)) :
     /\ r[1] <= r[2]
     /\ \A i \in r[1]..r[2] : ~IsDelim(t[i])
     /\ r[1] = 1 \/ IsDelim(t[r[1] - 1])
     /\ r[2] = Len(t) \/ IsDelim(t[r[2] + 1])}

TokenBag(t) ==
  LET runs == TokenRuns(t)
      toks == {SubSeq(t, r[1], r[2]) : r \in runs}
  IN  [tok \in toks |->
         Cardinality({r \in runs : SubSeq(t, r[1], r[2]) = tok})]

\* C9: two names match exactly when they have the same multiset of
\* case-folded tokens, whatever the order, case and delimiters.
C9_MatchIffSameTokens ==
  npc \in {"again", "done"} =>
    (match <=> TokenBag(Lower(x)) = TokenBag(Lower(user_name)))

C9_Witness_ReorderedMatch ==
  /\ npc = "done"
  /\ match
  /\ Cardinality(DOMAIN TokenBag(Lower(x))) = 2
  /\ ~IsDelim(x[1]) /\ ~IsDelim(user_name[1])
  /\ LowerChar(x[1]) # LowerChar(user_name[1])
  /\ x # Lower(x)

\* C10: normalize_name is idempotent, and its output is the lower-case
\* tokens in sorted order, single spaces between them and none around.
C10_IdempotentCanonical ==
  npc = "done" =>
    LET out == normalized_x
        runs == TokenRuns(out)
    IN  /\ renormalized_x = out
        /\ Lower(out) = out
        /\ \A i \in 1..Len(out) : IsDelim(out[i]) => out[i] = " "
        /\ out # <<>> => ~IsDelim(out[1]) /\ ~IsDelim(out[Len(out)])
        /\ \A i \in 1..(Len(out) - 1) : ~(IsDelim(out[i]) /\ IsDelim(out[i + 1]))
        /\ \A r, q \in runs :
             r[2] < q[1] =>
               ~StrLess(SubSeq(out, q[1], q[2]), SubSeq(out, r[1], r[2]))
        /\ TokenBag(out) = TokenBag(Lower(x))

C10_Witness_Rewritten ==
  /\ npc = "done"
  /\ Cardinality(TokenRuns(normalized_x)) = 2
  /\ ~IsDelim(x[1])
  /\ normalized_x[1] # LowerChar(x[1])
  /\ x # Lower(x)
  /\ renormalized_x = normalized_x

(***************************************************************************)
(* What a search is claimed to return, stated on the table itself.         *)
(***************************************************************************)
Called == your_projects.kind # "idle"

HasTable == LOOKUP_KEY \in DOMAIN reports

SearchedTable == reports[LOOKUP_KEY]

Target == effective_user(call.user_name)

names_match(t, target) == TokenBag(Lower(t)) = TokenBag(Lower(target))

NameCell(i, col) ==
  SearchedTable.data[i][CHOOSE j \in Positions(SearchedTable, col) : TRUE]

\* the rows whose name cell is filled with a name that matches the target
MatchingRows(col) ==
  {i \in 1..Len(SearchedTable.data) :
     /\ notna(NameCell(i, col))
     /\ names_match(Str(NameCell(i, col)), Target)}

ContainsOnce(col) == Cardinality(Positions(SearchedTable, col)) = 1

\* C11: for a table that contains the name column, the search returns, in
\* table order, exactly the rows whose name cell holds a name that matches
\* the target; a row whose name cell is empty is never returned; with no
\* matching row the result is empty, not an error.
C11_ReturnsExactlyMatchingRows ==
  (Called /\ HasTable /\ ContainsOnce(your_projects.column)) =>
    LET hits == MatchingRows(your_projects.column)
    IN  /\ your_projects.kind = "rows"
        /\ your_projects.rows.columns = SearchedTable.columns
        /\ your_projects.rows.index = Pick(SearchedTable.index, hits, 1)
        /\ your_projects.rows.data = Pick(SearchedTable.data, hits, 1)

\* The name column cannot be located: the given label is not a column of
\* the table, or no column qualifies for the auto-detection.
CannotLocate ==
  /\ Called
  /\ HasTable
  /\ IF call.name_column.given
       THEN Positions(SearchedTable, call.name_column.name) = {}
       ELSE \A j \in 1..Len(SearchedTable.columns) :
              ~is_name_column(SearchedTable.columns[j])

\* C12: a call that cannot locate the name column ends in the non-fatal
\* "cannot search this report" result (None after an ERROR line), never in
\* rows and never in an exception, and leaves the catalog as it was.
C12_ColumnNotFoundIsNonFatal ==
  [][(FindYourAssignments /\ CannotLocate')
       => (your_projects'.kind = "no_column" /\ reports' = reports)]_vars

NameSubstrings ==
  { <<"a", "s", "s", "i", "g", "n">>,
    <<"e", "s", "t", "i", "m", "a", "t", "o", "r">>,
    <<"n", "a", "m", "e">>,
    <<"o", "w", "n", "e", "r">> }

\* the positions of the columns whose case-folded name contains a substring
Qualifying ==
  {j \in 1..Len(SearchedTable.columns) :
     \E k \in NameSubstrings : Contains(k, Lower(SearchedTable.columns[j]))}

AutoDetected == Called /\ HasTable /\ ~call.name_column.given /\ Qualifying # {}

\* the rows a search of the column at position j selects
RowsMatchedAt(j) ==
  {i \in 1..Len(SearchedTable.data) :
     normalize_name(Str(SearchedTable.data[i][j])) = normalize_name(Target)}

\* C13: called without name_column, the search uses the first column, in
\* column order, whose case-folded name contains "assign", "estimator",
\* "name" or "owner", and reports it together with all the candidates, in
\* column order; the returned rows are those selected in that column.
C13_FirstCandidateSearched ==
  AutoDetected =>
    LET first == Nth(Qualifying, 1)
    IN  /\ your_projects.kind # "no_column"
        /\ your_projects.column = SearchedTable.columns[first]
        /\ your_projects.candidates
             = [k \in 1..Cardinality(Qualifying) |->
                  SearchedTable.columns[Nth(Qualifying, k)]]
        /\ (your_projects.kind = "rows" /\ ContainsOnce(your_projects.column))
             => your_projects.rows.data
                  = Pick(SearchedTable.data, RowsMatchedAt(first), 1)

\* Two columns qualify and the later one would have selected other rows.
C13_Witness_EarliestOfTwo ==
  /\ AutoDetected
  /\ Cardinality(Qualifying) = 2
  /\ your_projects.kind = "rows"
  /\ your_projects.rows.data # <<>>
  /\ RowsMatchedAt(Nth(Qualifying, 2)) # RowsMatchedAt(Nth(Qualifying, 1))

\* the configured cost-estimating report loaded in the pass that just ended
CostEstimatingLoaded == PassDone /\ REPORT_KEYS[1] \in Succeeded

\* C14: after a pass in which the cost-estimating report loads, the catalog
\* holds its table under the key that find_your_assignments and
\* explore_report look up, so neither of them ends in "not loaded".
C14_LoadedReportIsFound ==
  [][CostEstimatingLoaded' =>
       /\ LOOKUP_KEY \in DOMAIN reports'
       /\ reports'[LOOKUP_KEY] = latest'[REPORT_KEYS[1]].df
       /\ FindYourAssignments => your_projects'.kind # "not_loaded"
       /\ ExploreReport => explored' # "not_loaded"]_vars

=============================================================================
